---- MODULE Spec2Model ----
(***************************************************************************)
(* Model of the weather-NFT mint pipeline:                                 *)
(*   BaseAccountService (src/src/app/services/base-account.service.ts)     *)
(*   WeatherGeneratorComponent (src/unnamed/part_000)                      *)
(*                                                                         *)
(* Strings are sequences of UTF-16 code units (naturals), as in JavaScript.*)
(* Every `await` of the source is a step boundary: the code between two    *)
(* awaits runs atomically (single-threaded cooperative scheduling), and    *)
(* other flows may run between the resolution of a promise and the         *)
(* continuation of the function awaiting it.                               *)
(***************************************************************************)
EXTENDS Integers, Sequences, FiniteSets, TLC

\* JavaScript null / undefined (the model does not tell them apart). No string
\* or array of the model that can be null is empty.
NULL == <<>>

\* ------------------------------------------------------------------------
\* Bounds
\* ------------------------------------------------------------------------
\* Number of getWeather() calls (mint attempts) the user starts in a session.
MaxAttempts == 2

Attempts == 1..MaxAttempts

\* Longest generated text given to a pure function called directly.
MaxLen == 3

\* ------------------------------------------------------------------------
\* String helpers (JavaScript String.prototype semantics)
\* ------------------------------------------------------------------------
Repeat(c, n) == [i \in 1..n |-> c]

\* s.padStart(n, '0')
padStart(s, n) == IF Len(s) >= n THEN s ELSE Repeat(48, n - Len(s)) \o s

\* s.padEnd(n, '0')
padEnd(s, n) == IF Len(s) >= n THEN s ELSE s \o Repeat(48, n - Len(s))

\* A faulty replace, which leaves the text as it is.
replaceNothing(s) == s

\* s.replace('0x', ''): removes the first occurrence of "0x", wherever it is.
replace0x(s) ==
    LET hits == {i \in 1..(Len(s) - 1) : s[i] = 48 /\ s[i + 1] = 120}
    IN  IF hits = {} THEN s
        ELSE LET i == CHOOSE k \in hits : \A j \in hits : k <= j
             IN  SubSeq(s, 1, i - 1) \o SubSeq(s, i + 2, Len(s))

\* Code unit of the hexadecimal digit d, lower case ("0123456789abcdef"[d]).
HexDigit(d) == IF d < 10 THEN 48 + d ELSE 87 + d

\* n.toString(16) for a natural number n.
RECURSIVE toString16(_)
toString16(n) ==
    IF n < 16 THEN <<HexDigit(n)>>
    ELSE toString16(n \div 16) \o <<HexDigit(n % 16)>>

\* UTF-16 surrogate code units.
IsHighSurrogate(c) == c >= 55296 /\ c <= 56319
IsLowSurrogate(c) == c >= 56320 /\ c <= 57343

\* The pieces piece(s, lo), ..., piece(s, hi), joined: the result of a
\* left-to-right pass over s that turns each position into a piece of text.
RECURSIVE flatMap(_, _, _, _)
flatMap(piece(_, _), s, lo, hi) ==
    IF lo > hi THEN <<>>
    ELSE IF lo = hi THEN piece(s, lo)
    ELSE LET mid == (lo + hi) \div 2
         IN  flatMap(piece, s, lo, mid) \o flatMap(piece, s, mid + 1, hi)

\* Position i of s starts a surrogate pair / is the second unit of one.
StartsPair(s, i) == i < Len(s) /\ IsHighSurrogate(s[i]) /\ IsLowSurrogate(s[i + 1])
EndsPair(s, i) == i > 1 /\ IsHighSurrogate(s[i - 1]) /\ IsLowSurrogate(s[i])

\* Math.ceil(a / b) for naturals a, b > 0.
ceilDiv(a, b) == (a + b - 1) \div b

\* ------------------------------------------------------------------------
\* Values the collaborators can answer with
\* ------------------------------------------------------------------------
\* "0x" followed by 40 copies of the hex digit d: a 20-byte address.
Address(d) == <<48, 120>> \o Repeat(HexDigit(d), 40)

\* The user's primary (universal) account.
PrimaryAddress == Address(1)

\* Sub-account addresses the wallet can answer with.
SubAddresses == {Address(10), Address(11)}

\* Responses of eth_requestAccounts: [universal] or [universal, sub].
AccountLists == {<<PrimaryAddress>>, <<PrimaryAddress, Address(10)>>}

\* Responses of wallet_getSubAccounts: the subAccounts array. An absent
\* subAccounts field takes the same branch as the empty array.
SubAccountLists ==
    { <<>>,
      <<[address |-> Address(10)]>>,
      <<[address |-> Address(11)], [address |-> Address(10)]>> }

\* The transaction identifier the transport answers with: "0x71".
TxId == <<48, 120, 55, 49>>

\* Results of wallet_sendCalls: an object with txHash, with hash, with
\* neither, or no object at all.
SendResults ==
    { [txHash |-> TxId, hash |-> NULL],
      [txHash |-> NULL, hash |-> TxId],
      [txHash |-> NULL, hash |-> NULL],
      NULL }

\* err.message of a rejected request, by the request that failed.
ErrorMessage(method) == <<"failed", method>>

\* The TypeError thrown when the observation has no condition entry
\* (this.weather.weather[0] is undefined).
TypeErrorMessage == <<"TypeError", "weather[0]">>

\* Weather observations of the weather collaborator (untyped JSON).
\* temp is in tenths of a degree.
Paris ==
    [ name    |-> <<80, 97, 114, 105, 115>>,
      weather |-> <<[description |-> <<99, 108, 101, 97, 114, 32, 115, 107, 121>>]>>,
      main    |-> [temp |-> 185] ]

\* "Köln", "dégagé", -3
Koeln ==
    [ name    |-> <<75, 246, 108, 110>>,
      weather |-> <<[description |-> <<100, 233, 103, 97, 103, 233>>]>>,
      main    |-> [temp |-> -30] ]

\* A malformed observation: the condition array is empty.
NoCondition ==
    [ name    |-> <<80, 97, 114, 105, 115>>,
      weather |-> <<>>,
      main    |-> [temp |-> 185] ]

Observations == {Paris, Koeln, NoCondition}

\* new Date().toLocaleString() at the time of the attempt: "1/1"
Dates == {<<49, 47, 49>>}

\* ------------------------------------------------------------------------
\* MetadataBuilder (getWeather, metadata literal)
\* ------------------------------------------------------------------------
\* `${n}` for a natural number n, decimal digits.
RECURSIVE digits(_)
digits(n) == IF n < 10 THEN <<48 + n>> ELSE digits(n \div 10) \o <<48 + (n % 10)>>

\* `${temp}` for a temperature given in tenths: 185 -> "18.5", -30 -> "-3".
numberToString(t) ==
    LET a == IF t < 0 THEN 0 - t ELSE t
        body == IF a % 10 = 0 THEN digits(a \div 10)
                ELSE digits(a \div 10) \o <<46, 48 + (a % 10)>>
    IN  IF t < 0 THEN <<45>> \o body ELSE body

DegreesC == <<176, 67>>

\* A faulty metadata literal, with Condition before Temperature.
buildMetadataConditionFirst(w, now) ==
    [ name        |-> <<87, 101, 97, 116, 104, 101, 114, 32, 105, 110, 32>> \o w.name,
      description |-> w.weather[1].description,
      attributes  |-> <<
          [trait_type |-> <<67, 105, 116, 121>>, value |-> w.name],
          [trait_type |-> <<67, 111, 110, 100, 105, 116, 105, 111, 110>>,
           value |-> w.weather[1].description],
          [trait_type |-> <<84, 101, 109, 112, 101, 114, 97, 116, 117, 114, 101>>,
           value |-> numberToString(w.main.temp) \o DegreesC],
          [trait_type |-> <<68, 97, 116, 101>>, value |-> now] >> ]

buildMetadata(w, now) ==
    [ name        |-> <<87, 101, 97, 116, 104, 101, 114, 32, 105, 110, 32>> \o w.name,
      description |-> <<70, 111, 114, 101, 99, 97, 115, 116, 32, 102, 111, 114, 32>>
                      \o w.name \o <<58, 32>> \o w.weather[1].description
                      \o <<44, 32>> \o numberToString(w.main.temp) \o DegreesC,
      attributes  |-> <<
          [trait_type |-> <<67, 105, 116, 121>>, value |-> w.name],
          [trait_type |-> <<84, 101, 109, 112, 101, 114, 97, 116, 117, 114, 101>>,
           value |-> numberToString(w.main.temp) \o DegreesC],
          [trait_type |-> <<67, 111, 110, 100, 105, 116, 105, 111, 110>>,
           value |-> w.weather[1].description],
          [trait_type |-> <<68, 97, 116, 101>>, value |-> now] >> ]

\* ------------------------------------------------------------------------
\* URIEncoder (getWeather, jsonStr / b64 / tokenURI)
\* ------------------------------------------------------------------------
\* "\uXXXX" for a code unit, lower-case hex as JSON.stringify writes it.
jsonUnicodeEscape(c) == <<92, 117>> \o padStart(toString16(c), 4)

\* JSON.stringify of the code unit at position i of s (QuoteJSONString):
\* the units of a surrogate pair stay, a lone surrogate is escaped.
jsonQuoteUnit(s, i) ==
    LET c == s[i]
    IN  IF StartsPair(s, i) \/ EndsPair(s, i) THEN <<c>>
        ELSE IF IsHighSurrogate(c) \/ IsLowSurrogate(c) THEN jsonUnicodeEscape(c)
        ELSE IF c = 34 THEN <<92, 34>>
        ELSE IF c = 92 THEN <<92, 92>>
        ELSE IF c = 8  THEN <<92, 98>>
        ELSE IF c = 9  THEN <<92, 116>>
        ELSE IF c = 10 THEN <<92, 110>>
        ELSE IF c = 12 THEN <<92, 102>>
        ELSE IF c = 13 THEN <<92, 114>>
        ELSE IF c < 32 THEN jsonUnicodeEscape(c)
        ELSE <<c>>

\* JSON.stringify of a string value.
jsonString(s) == <<34>> \o flatMap(jsonQuoteUnit, s, 1, Len(s)) \o <<34>>

\* JSON.stringify of one attribute: {"trait_type":...,"value":...}
jsonAttribute(t) ==
    <<123, 34, 116, 114, 97, 105, 116, 95, 116, 121, 112, 101, 34, 58>>
    \o jsonString(t.trait_type)
    \o <<44, 34, 118, 97, 108, 117, 101, 34, 58>> \o jsonString(t.value) \o <<125>>

RECURSIVE jsonAttributes(_)
jsonAttributes(ts) ==
    IF ts = <<>> THEN <<>>
    ELSE jsonAttribute(Head(ts))
         \o (IF Len(ts) > 1 THEN <<44>> ELSE <<>>) \o jsonAttributes(Tail(ts))

\* JSON.stringify(metadata): {"name":...,"description":...,"attributes":[...]}
jsonStringify(m) ==
    <<123, 34, 110, 97, 109, 101, 34, 58>> \o jsonString(m.name)
    \o <<44, 34, 100, 101, 115, 99, 114, 105, 112, 116, 105, 111, 110, 34, 58>>
    \o jsonString(m.description)
    \o <<44, 34, 97, 116, 116, 114, 105, 98, 117, 116, 101, 115, 34, 58, 91>>
    \o jsonAttributes(m.attributes) \o <<93, 125>>

\* The UTF-8 bytes of the code point cp.
utf8(cp) ==
    IF cp < 128 THEN <<cp>>
    ELSE IF cp < 2048 THEN <<192 + (cp \div 64), 128 + (cp % 64)>>
    ELSE IF cp < 65536
         THEN <<224 + (cp \div 4096), 128 + ((cp \div 64) % 64), 128 + (cp % 64)>>
    ELSE <<240 + (cp \div 262144), 128 + ((cp \div 4096) % 64),
           128 + ((cp \div 64) % 64), 128 + (cp % 64)>>

\* Characters encodeURIComponent leaves as they are: A-Z a-z 0-9 - _ . ! ~ * ' ( )
IsUnreserved(c) ==
    \/ (c >= 65 /\ c <= 90) \/ (c >= 97 /\ c <= 122) \/ (c >= 48 /\ c <= 57)
    \/ c \in {45, 95, 46, 33, 126, 42, 39, 40, 41}

\* Upper-case hexadecimal digit d ("0123456789ABCDEF"[d]).
HexDigitUpper(d) == IF d < 10 THEN 48 + d ELSE 55 + d

\* "%XX" for each byte.
RECURSIVE percentBytes(_)
percentBytes(bs) ==
    IF bs = <<>> THEN <<>>
    ELSE <<37, HexDigitUpper(Head(bs) \div 16), HexDigitUpper(Head(bs) % 16)>>
         \o percentBytes(Tail(bs))

\* What encodeURIComponent writes for position i of s: a surrogate pair is
\* one code point, written where it starts.
encodeURIUnit(s, i) ==
    IF StartsPair(s, i)
    THEN percentBytes(utf8(65536 + (s[i] - 55296) * 1024 + (s[i + 1] - 56320)))
    ELSE IF EndsPair(s, i) THEN <<>>
    ELSE IF IsUnreserved(s[i]) THEN <<s[i]>>
    ELSE percentBytes(utf8(s[i]))

\* encodeURIComponent(s), for s without lone surrogates (JSON.stringify
\* leaves none; encodeURIComponent throws on one).
encodeURIComponent(s) == flatMap(encodeURIUnit, s, 1, Len(s))

IsUpperHex(c) == (c >= 48 /\ c <= 57) \/ (c >= 65 /\ c <= 70)

UpperHexValue(c) == IF c <= 57 THEN c - 48 ELSE c - 55

\* Position i of s starts a match of /%([0-9A-F]{2})/. A match holds no "%"
\* after its first character, so every such position is a match of the /g pass.
IsEscape(s, i) ==
    i >= 1 /\ i + 2 <= Len(s) /\ s[i] = 37 /\ IsUpperHex(s[i + 1]) /\ IsUpperHex(s[i + 2])

unescapeUnit(s, i) ==
    IF IsEscape(s, i) THEN <<UpperHexValue(s[i + 1]) * 16 + UpperHexValue(s[i + 2])>>
    ELSE IF IsEscape(s, i - 1) \/ IsEscape(s, i - 2) THEN <<>>
    ELSE <<s[i]>>

\* A faulty replace, which leaves the percent escapes in the text.
keepEscapes(s) == s

\* .replace(/%([0-9A-F]{2})/g, (_, p1) => String.fromCharCode(parseInt(p1, 16)))
unescapeBytes(s) == flatMap(unescapeUnit, s, 1, Len(s))

\* The base64 alphabet: A-Z a-z 0-9 + /
Base64Char(i) ==
    IF i < 26 THEN 65 + i
    ELSE IF i < 52 THEN 71 + i
    ELSE IF i < 62 THEN i - 4
    ELSE IF i = 62 THEN 43 ELSE 47

\* The four base64 characters of the group of up to three bytes that starts
\* at position i of s, when i starts a group; "=" pads a short last group.
btoaGroup(s, i) ==
    IF i % 3 # 1 THEN <<>>
    ELSE IF i = Len(s)
         THEN <<Base64Char(s[i] \div 4), Base64Char((s[i] % 4) * 16), 61, 61>>
    ELSE IF i + 1 = Len(s)
         THEN <<Base64Char(s[i] \div 4),
                Base64Char((s[i] % 4) * 16 + (s[i + 1] \div 16)),
                Base64Char((s[i + 1] % 16) * 4), 61>>
    ELSE <<Base64Char(s[i] \div 4),
           Base64Char((s[i] % 4) * 16 + (s[i + 1] \div 16)),
           Base64Char((s[i + 1] % 16) * 4 + (s[i + 2] \div 64)),
           Base64Char(s[i + 2] % 64)>>

\* btoa(s) for a string of code units below 256.
btoa(s) == flatMap(btoaGroup, s, 1, Len(s))

\* 'data:application/json;base64,'
DataURIPrefix ==
    <<100, 97, 116, 97, 58, 97, 112, 112, 108, 105, 99, 97, 116, 105, 111, 110,
      47, 106, 115, 111, 110, 59, 98, 97, 115, 101, 54, 52, 44>>

\* The token URI getWeather builds from its metadata.
tokenURIOf(m) ==
    DataURIPrefix \o btoa(unescapeBytes(encodeURIComponent(jsonStringify(m))))

\* ------------------------------------------------------------------------
\* CallEncoder (encodeMintCall)
\* ------------------------------------------------------------------------
\* '0x40c10f19'
selector == <<48, 120, 52, 48, 99, 49, 48, 102, 49, 57>>

\* '000...040': 62 zeros, then "40".
offset == Repeat(48, 62) \o <<52, 48>>

\* Array.from(s) splits s by code points, so a surrogate pair is one element
\* c, whose c.charCodeAt(0) is its high surrogate: the second unit of a pair
\* gives nothing. c.charCodeAt(0).toString(16).padStart(2, '0')
hexOfUnit(s, i) ==
    IF EndsPair(s, i) THEN <<>> ELSE padStart(toString16(s[i]), 2)

\* Array.from(s).map(c => ...).join('')
hexJoin(s) == flatMap(hexOfUnit, s, 1, Len(s))

\* (tokenURIHex.length / 2).toString(16): a half-integer prints as "<n>.8".
halfToString16(len) ==
    IF len % 2 = 0 THEN toString16(len \div 2)
    ELSE toString16(len \div 2) \o <<46, 56>>

encodeMintCall(to, tokenURI) ==
    LET toPadded    == padStart(replace0x(to), 64)
        tokenURIHex == hexJoin(tokenURI)
        lenPadded   == padStart(halfToString16(Len(tokenURIHex)), 64)
    IN  selector \o toPadded \o offset \o lenPadded
        \o padEnd(tokenURIHex, ceilDiv(Len(tokenURIHex), 64) * 64)

\* ------------------------------------------------------------------------
\* State
\* ------------------------------------------------------------------------
VARIABLES
    universalAddress,  \* BaseAccountService.universalAddress
    subAccount,        \* BaseAccountService.subAccount (its address, or NULL)
    connectPc,         \* position of ngOnInit / connectWallet
    accounts,          \* what connectWallet() resolved with (NULL before)
    loading,           \* WeatherGeneratorComponent.loading
    txHash,            \* WeatherGeneratorComponent.txHash
    weather,           \* WeatherGeneratorComponent.weather
    error,             \* WeatherGeneratorComponent.error
    pc,                \* position of each getWeather() call
    caller,            \* which function awaits ensureSubAccount() in the call
    sub,               \* what ensureSubAccount() resolved with (local `sub`)
    subAddress,        \* getWeather local `subAddress`
    metadata,          \* getWeather local `metadata`
    result,            \* what sendTransactionFromSub() resolved with
    requests,          \* the requests each getWeather() call has issued, in
                       \* order, each with how the collaborator settled it
    outcome,           \* how each getWeather() call ended (failed: the step
                       \* that failed, or "none"), and the component fields
                       \* at the moment its promise settled
    args,              \* the arguments of a direct call of one of the pure
                       \* functions (NULL in a session of the component)
    returned           \* what that call returned or threw (NULL before)

service == <<universalAddress, subAccount, connectPc, accounts>>
component == <<loading, txHash, weather, error>>
locals == <<pc, caller, sub, subAddress, metadata, result>>
calls == <<args, returned>>
vars == <<service, component, locals, requests, outcome, calls>>

CONTRACT_ADDRESS ==
    <<48, 120, 98, 52, 70, 56, 48, 48, 69, 53, 54, 52, 55, 102, 57, 66, 56, 50,
      66, 101, 57, 56, 48, 54, 56, 99, 98, 57, 56, 99, 53, 49, 54, 102, 56, 55,
      49, 98, 98, 55, 66, 56>>

\* '0x0', the default of sendTransactionFromSub's `value` parameter.
DefaultValue == <<48, 120, 48>>

\* The component and its service after construction.
Constructed ==
    /\ universalAddress = NULL
    /\ subAccount = NULL
    /\ connectPc = "init"
    /\ accounts = NULL
    /\ loading = FALSE
    /\ txHash = NULL
    /\ weather = NULL
    /\ error = NULL
    /\ pc = [a \in Attempts |-> "idle"]
    /\ caller = [a \in Attempts |-> NULL]
    /\ sub = [a \in Attempts |-> NULL]
    /\ subAddress = [a \in Attempts |-> NULL]
    /\ metadata = [a \in Attempts |-> NULL]
    /\ result = [a \in Attempts |-> NULL]
    /\ requests = [a \in Attempts |-> <<>>]
    /\ outcome = [a \in Attempts |-> NULL]

Init ==
    /\ Constructed
    /\ args = NULL
    /\ returned = NULL

\* ------------------------------------------------------------------------
\* ngOnInit / BaseAccountService.connectWallet
\* ------------------------------------------------------------------------
\* ngOnInit calls connectWallet, which issues eth_requestAccounts and awaits.
ngOnInit ==
    /\ connectPc = "init"
    /\ connectPc' = "awaitAccounts"
    /\ UNCHANGED <<universalAddress, subAccount, accounts, component, locals,
                   requests, outcome>>
    /\ UNCHANGED calls

\* A faulty connectWallet, which takes a pre-provisioned sub-account only from
\* a response of three or more addresses.
connectSubAccountStrict(accs) ==
    IF Len(accs) > 2 THEN accs[2] ELSE subAccount

\* The cached sub-account after connectWallet has read the response `accs`.
connectSubAccount(accs) ==
    IF Len(accs) >= 2 THEN accs[2] ELSE subAccount

\* eth_requestAccounts resolves with a list of accounts.
connectWallet ==
    /\ connectPc = "awaitAccounts"
    /\ \E accs \in AccountLists :
          /\ universalAddress' = accs[1]
          /\ subAccount' = connectSubAccount(accs)
          /\ accounts' = accs
    /\ connectPc' = "done"
    /\ UNCHANGED <<component, locals, requests, outcome>>
    /\ UNCHANGED calls

\* eth_requestAccounts rejects: connectWallet and ngOnInit reject.
connectWalletRejected ==
    /\ connectPc = "awaitAccounts"
    /\ connectPc' = "failed"
    /\ UNCHANGED <<universalAddress, subAccount, accounts, component, locals,
                   requests, outcome>>
    /\ UNCHANGED calls

\* ------------------------------------------------------------------------
\* Requests, as the collaborators receive them. status is "pending" until the
\* collaborator resolves or rejects the request.
\* ------------------------------------------------------------------------
httpGet == [method |-> "GET", status |-> "pending"]

getSubAccountsRequest(account) ==
    [method |-> "wallet_getSubAccounts", status |-> "pending", account |-> account]

addSubAccountRequest ==
    [method |-> "wallet_addSubAccount", status |-> "pending", type |-> "create"]

\* A faulty callsParam, sent from the primary address.
sendCallsRequestFromPrimary(from, to, value) ==
    [ method |-> "wallet_sendCalls", status |-> "pending",
      version |-> "2.0", atomicRequired |-> TRUE,
      from |-> universalAddress, calls |-> <<[to |-> to, value |-> value]>>,
      result |-> NULL ]

\* callsParam of sendTransactionFromSub: one call {to, data, value}. The call's
\* `data` is the `data` argument, which getWeather computes from its locals
\* (mintData below). result is what the transport resolved with.
sendCallsRequest(from, to, value) ==
    [ method |-> "wallet_sendCalls", status |-> "pending",
      version |-> "2.0", atomicRequired |-> TRUE,
      from |-> from, calls |-> <<[to |-> to, value |-> value]>>, result |-> NULL ]

\* The requests of call a, the pending one settled with `status`.
settled(a, status) ==
    [requests[a] EXCEPT ![Len(requests[a])].status = status]

\* The metadata a getWeather() call can have built.
BuiltMetadata ==
    {buildMetadata(w, now) : w \in Observations \ {NoCondition}, now \in Dates}

\* encodeMintCall(subAddress, tokenURI) for every sub-account address and
\* every metadata a call can hold, computed once.
MintCalls ==
    [x \in SubAddresses, m \in BuiltMetadata |-> encodeMintCall(x, tokenURIOf(m))]

\* A faulty getWeather, which builds the token URI at dispatch time from the
\* weather field of the component, when that holds an observation.
mintDataShared(a) ==
    MintCalls[subAddress[a],
              IF weather # NULL /\ weather.weather # <<>>
              THEN buildMetadata(weather, <<49, 47, 49>>)
              ELSE metadata[a]]

\* mintFunction.data of call a: encodeMintCall(subAddress, tokenURI).
mintData(a) == MintCalls[subAddress[a], metadata[a]]

\* ------------------------------------------------------------------------
\* WeatherGeneratorComponent.getWeather, BaseAccountService.ensureSubAccount,
\* getSubAccountAddress and sendTransactionFromSub
\* ------------------------------------------------------------------------
\* getWeather() returns: its locals are gone.
return(a) ==
    /\ caller' = [caller EXCEPT ![a] = NULL]
    /\ sub' = [sub EXCEPT ![a] = NULL]
    /\ subAddress' = [subAddress EXCEPT ![a] = NULL]
    /\ metadata' = [metadata EXCEPT ![a] = NULL]
    /\ result' = [result EXCEPT ![a] = NULL]

\* A faulty catch block, which ends the call without recording the message.
catchSilent(a, method, message, w, log) ==
    /\ loading' = FALSE
    /\ requests' = [requests EXCEPT ![a] = log]
    /\ pc' = [pc EXCEPT ![a] = "done"]
    /\ outcome' = [outcome EXCEPT ![a] =
            [ failed |-> method, txHash |-> txHash, weather |-> w,
              error |-> error, loading |-> FALSE ]]
    /\ return(a)
    /\ UNCHANGED <<service, txHash, error>>

\* A faulty getWeather without its finally block: a failed call leaves
\* loading as it is.
catchNoFinally(a, method, message, w, log) ==
    /\ error' = message
    /\ requests' = [requests EXCEPT ![a] = log]
    /\ pc' = [pc EXCEPT ![a] = "done"]
    /\ outcome' = [outcome EXCEPT ![a] =
            [ failed |-> method, txHash |-> txHash, weather |-> w,
              error |-> message, loading |-> loading ]]
    /\ return(a)
    /\ UNCHANGED <<service, txHash, loading>>

\* The catch and finally blocks of getWeather: the call ends with `message`
\* recorded, after the step `method` failed. w is the value of weather as the
\* step leaves it, log the requests of the call with the last one settled.
catch(a, method, message, w, log) ==
    /\ error' = message
    /\ loading' = FALSE
    /\ requests' = [requests EXCEPT ![a] = log]
    /\ pc' = [pc EXCEPT ![a] = "done"]
    /\ outcome' = [outcome EXCEPT ![a] =
            [ failed |-> method, txHash |-> txHash, weather |-> w,
              error |-> message, loading |-> FALSE ]]
    /\ return(a)
    /\ UNCHANGED <<service, txHash>>

\* A faulty handling of a rejection, which sends the rejected request once
\* more and keeps waiting, and gives up when the call has issued four
\* requests.
rejectedRetry(a, method) ==
    IF Len(requests[a]) < 4
    THEN /\ requests' = [requests EXCEPT ![a] =
                 Append(settled(a, "rejected"), requests[a][Len(requests[a])])]
         /\ UNCHANGED <<service, loading, txHash, error, locals, outcome>>
    ELSE catch(a, method, ErrorMessage(method), weather, settled(a, "rejected"))

\* A faulty handling of a rejection, which caches a sub-account all the same.
rejectedCaching(a, method) ==
    /\ error' = ErrorMessage(method)
    /\ loading' = FALSE
    /\ requests' = [requests EXCEPT ![a] = settled(a, "rejected")]
    /\ pc' = [pc EXCEPT ![a] = "done"]
    /\ outcome' = [outcome EXCEPT ![a] =
            [ failed |-> method, txHash |-> txHash, weather |-> weather,
              error |-> ErrorMessage(method), loading |-> FALSE ]]
    /\ return(a)
    /\ subAccount' = Address(10)
    /\ UNCHANGED <<universalAddress, connectPc, accounts, txHash>>

\* A request of call a is rejected: the rejection reaches getWeather's catch.
rejected(a, method) ==
    catch(a, method, ErrorMessage(method), weather, settled(a, "rejected"))

\* A faulty ensureSubAccount(), which does not look at the cache and always
\* issues wallet_getSubAccounts.
ensureSubAccountNoCache(a, who, log) ==
    /\ caller' = [caller EXCEPT ![a] = who]
    /\ requests' = [requests EXCEPT ![a] =
            Append(log, getSubAccountsRequest(universalAddress))]
    /\ pc' = [pc EXCEPT ![a] = "awaitGetSubAccounts"]
    /\ UNCHANGED sub

\* The synchronous part of ensureSubAccount(), called by `who`: return the
\* cached sub-account, or issue wallet_getSubAccounts and await. log is the
\* requests of the call so far.
ensureSubAccount(a, who, log) ==
    /\ caller' = [caller EXCEPT ![a] = who]
    /\ IF subAccount # NULL
       THEN /\ sub' = [sub EXCEPT ![a] = subAccount]
            /\ pc' = [pc EXCEPT ![a] = "ensured"]
            /\ requests' = [requests EXCEPT ![a] = log]
       ELSE /\ requests' = [requests EXCEPT ![a] =
                    Append(log, getSubAccountsRequest(universalAddress))]
            /\ pc' = [pc EXCEPT ![a] = "awaitGetSubAccounts"]
            /\ UNCHANGED sub

\* A faulty getWeather(), which does not await the weather before it asks for
\* the sub-accounts.
getWeatherEager(a) ==
    /\ pc[a] = "idle"
    /\ connectPc # "init"
    /\ a > 1 => pc[a - 1] # "idle"
    /\ loading' = TRUE
    /\ txHash' = NULL
    /\ weather' = NULL
    /\ requests' = [requests EXCEPT ![a] =
            <<httpGet, getSubAccountsRequest(universalAddress)>>]
    /\ pc' = [pc EXCEPT ![a] = "awaitWeather"]
    /\ UNCHANGED <<service, error, caller, sub, subAddress, metadata, result, outcome>>
    /\ UNCHANGED calls

\* A faulty getWeather(), which clears the error when it starts.
getWeatherClearsError(a) ==
    /\ pc[a] = "idle"
    /\ connectPc # "init"
    /\ a > 1 => pc[a - 1] # "idle"
    /\ loading' = TRUE
    /\ txHash' = NULL
    /\ weather' = NULL
    /\ error' = NULL
    /\ requests' = [requests EXCEPT ![a] = Append(@, httpGet)]
    /\ pc' = [pc EXCEPT ![a] = "awaitWeather"]
    /\ UNCHANGED <<service, caller, sub, subAddress, metadata, result, outcome>>
    /\ UNCHANGED calls

\* getWeather() is called: its code up to the first await. Calls are numbered
\* in the order they start; the component exists once ngOnInit has run.
getWeather(a) ==
    /\ pc[a] = "idle"
    /\ connectPc # "init"
    /\ a > 1 => pc[a - 1] # "idle"
    /\ loading' = TRUE
    /\ txHash' = NULL
    /\ weather' = NULL
    /\ requests' = [requests EXCEPT ![a] = Append(@, httpGet)]
    /\ pc' = [pc EXCEPT ![a] = "awaitWeather"]
    /\ UNCHANGED <<service, error, caller, sub, subAddress, metadata, result, outcome>>
    /\ UNCHANGED calls

\* The weather request resolves: metadata and token URI are built, then
\* getSubAccountAddress() calls ensureSubAccount(). An observation without a
\* condition entry throws a TypeError while the metadata is built.
weatherResolved(a) ==
    /\ pc[a] = "awaitWeather"
    /\ \E obs \in Observations, now \in Dates :
          /\ weather' = obs
          /\ IF obs.weather = <<>>
             THEN catch(a, "GET", TypeErrorMessage, obs, settled(a, "resolved"))
             ELSE /\ metadata' = [metadata EXCEPT ![a] = buildMetadata(obs, now)]
                  /\ ensureSubAccount(a, "getSubAccountAddress", settled(a, "resolved"))
                  /\ UNCHANGED <<service, loading, txHash, error, outcome,
                                 subAddress, result>>
    /\ UNCHANGED calls

weatherRejected(a) ==
    /\ pc[a] = "awaitWeather"
    /\ rejected(a, "GET")
    /\ UNCHANGED weather
    /\ UNCHANGED calls

\* wallet_getSubAccounts resolves: cache the first sub-account, or issue
\* wallet_addSubAccount and await.
getSubAccountsResolved(a) ==
    /\ pc[a] = "awaitGetSubAccounts"
    /\ \E subAccounts \in SubAccountLists :
          IF Len(subAccounts) > 0
          THEN /\ subAccount' = subAccounts[1].address
               /\ sub' = [sub EXCEPT ![a] = subAccounts[1].address]
               /\ pc' = [pc EXCEPT ![a] = "ensured"]
               /\ requests' = [requests EXCEPT ![a] = settled(a, "resolved")]
          ELSE /\ requests' = [requests EXCEPT ![a] =
                       Append(settled(a, "resolved"), addSubAccountRequest)]
               /\ pc' = [pc EXCEPT ![a] = "awaitAddSubAccount"]
               /\ UNCHANGED <<subAccount, sub>>
    /\ UNCHANGED <<universalAddress, connectPc, accounts, component, caller,
                   subAddress, metadata, result, outcome>>
    /\ UNCHANGED calls

\* wallet_getSubAccounts rejects.
getSubAccountsRejected(a) ==
    /\ pc[a] = "awaitGetSubAccounts"
    /\ rejected(a, "wallet_getSubAccounts")
    /\ UNCHANGED weather
    /\ UNCHANGED calls

\* wallet_addSubAccount resolves with a new sub-account, which is cached.
addSubAccountResolved(a) ==
    /\ pc[a] = "awaitAddSubAccount"
    /\ \E address \in SubAddresses :
          /\ subAccount' = address
          /\ sub' = [sub EXCEPT ![a] = address]
    /\ pc' = [pc EXCEPT ![a] = "ensured"]
    /\ requests' = [requests EXCEPT ![a] = settled(a, "resolved")]
    /\ UNCHANGED <<universalAddress, connectPc, accounts, component, caller,
                   subAddress, metadata, result, outcome>>
    /\ UNCHANGED calls

addSubAccountRejected(a) ==
    /\ pc[a] = "awaitAddSubAccount"
    /\ rejected(a, "wallet_addSubAccount")
    /\ UNCHANGED weather
    /\ UNCHANGED calls

\* getSubAccountAddress() has resolved: getWeather takes the address, encodes
\* the call and calls sendTransactionFromSub(), which calls ensureSubAccount().
getSubAccountAddress(a) ==
    /\ pc[a] = "ensured"
    /\ caller[a] = "getSubAccountAddress"
    /\ subAddress' = [subAddress EXCEPT ![a] = sub[a]]
    /\ ensureSubAccount(a, "sendTransactionFromSub", requests[a])
    /\ UNCHANGED <<service, component, metadata, result, outcome>>
    /\ UNCHANGED calls

\* ensureSubAccount() has resolved inside sendTransactionFromSub(): issue
\* wallet_sendCalls from the sub-account it resolved with, and await.
sendTransactionFromSub(a) ==
    /\ pc[a] = "ensured"
    /\ caller[a] = "sendTransactionFromSub"
    /\ requests' = [requests EXCEPT ![a] =
            Append(@, sendCallsRequest(sub[a], CONTRACT_ADDRESS, DefaultValue))]
    /\ pc' = [pc EXCEPT ![a] = "awaitSendCalls"]
    /\ UNCHANGED <<service, component, caller, sub, subAddress, metadata, result,
                   outcome>>
    /\ UNCHANGED calls

\* What sendTransactionFromSub() returns when the transport resolved with r.
sendTransactionResult(r) == r

\* wallet_sendCalls resolves: sendTransactionFromSub() returns the result.
sendCallsResolved(a) ==
    /\ pc[a] = "awaitSendCalls"
    /\ \E r \in SendResults :
          /\ result' = [result EXCEPT ![a] = sendTransactionResult(r)]
          /\ requests' = [requests EXCEPT ![a] =
                  [settled(a, "resolved") EXCEPT ![Len(requests[a])].result = r]]
    /\ pc' = [pc EXCEPT ![a] = "sent"]
    /\ UNCHANGED <<service, component, caller, sub, subAddress, metadata, outcome>>
    /\ UNCHANGED calls

sendCallsRejected(a) ==
    /\ pc[a] = "awaitSendCalls"
    /\ rejected(a, "wallet_sendCalls")
    /\ UNCHANGED weather
    /\ UNCHANGED calls

\* result?.txHash || result?.hash || null
extractTxHash(r) ==
    IF r = NULL THEN NULL
    ELSE IF r.txHash # NULL THEN r.txHash
    ELSE IF r.hash # NULL THEN r.hash
    ELSE NULL

\* getWeather resumes with the result: txHash is set, then the finally block.
getWeatherDone(a) ==
    /\ pc[a] = "sent"
    /\ txHash' = extractTxHash(result[a])
    /\ loading' = FALSE
    /\ pc' = [pc EXCEPT ![a] = "done"]
    /\ outcome' = [outcome EXCEPT ![a] =
            [ failed |-> "none", txHash |-> extractTxHash(result[a]),
              weather |-> weather, error |-> error, loading |-> FALSE ]]
    /\ return(a)
    /\ UNCHANGED <<service, weather, error, requests>>
    /\ UNCHANGED calls

Next ==
    \/ ngOnInit
    \/ connectWallet
    \/ connectWalletRejected
    \/ \E a \in Attempts : getWeather(a)
    \/ \E a \in Attempts : weatherResolved(a)
    \/ \E a \in Attempts : weatherRejected(a)
    \/ \E a \in Attempts : getSubAccountsResolved(a)
    \/ \E a \in Attempts : getSubAccountsRejected(a)
    \/ \E a \in Attempts : addSubAccountResolved(a)
    \/ \E a \in Attempts : addSubAccountRejected(a)
    \/ \E a \in Attempts : getSubAccountAddress(a)
    \/ \E a \in Attempts : sendTransactionFromSub(a)
    \/ \E a \in Attempts : sendCallsResolved(a)
    \/ \E a \in Attempts : sendCallsRejected(a)
    \/ \E a \in Attempts : getWeatherDone(a)

Spec == Init /\ [][Next]_vars

\* ------------------------------------------------------------------------
\* One call at a time: the session in which the wallet connection has settled
\* before the first getWeather() call and every getWeather() call has returned
\* before the next one starts, so that the calls of ensureSubAccount() follow
\* one another.
\* ------------------------------------------------------------------------
getWeatherAlone(a) ==
    /\ connectPc \in {"done", "failed"}
    /\ \A b \in Attempts : pc[b] \in {"idle", "done"}
    /\ getWeather(a)

NextSeq ==
    \/ ngOnInit
    \/ connectWallet
    \/ connectWalletRejected
    \/ \E a \in Attempts : getWeatherAlone(a)
    \/ \E a \in Attempts : weatherResolved(a)
    \/ \E a \in Attempts : weatherRejected(a)
    \/ \E a \in Attempts : getSubAccountsResolved(a)
    \/ \E a \in Attempts : getSubAccountsRejected(a)
    \/ \E a \in Attempts : addSubAccountResolved(a)
    \/ \E a \in Attempts : addSubAccountRejected(a)
    \/ \E a \in Attempts : getSubAccountAddress(a)
    \/ \E a \in Attempts : sendTransactionFromSub(a)
    \/ \E a \in Attempts : sendCallsResolved(a)
    \/ \E a \in Attempts : sendCallsRejected(a)
    \/ \E a \in Attempts : getWeatherDone(a)

SpecSeq == Init /\ [][NextSeq]_vars

\* ------------------------------------------------------------------------
\* A session in which every pending request is eventually answered (resolved
\* or rejected) and the event loop eventually runs every continuation that is
\* ready. Nothing obliges the user to start a call.
\* ------------------------------------------------------------------------
\* The steps of call a that follow its start.
resume(a) ==
    \/ weatherResolved(a)
    \/ weatherRejected(a)
    \/ getSubAccountsResolved(a)
    \/ getSubAccountsRejected(a)
    \/ addSubAccountResolved(a)
    \/ addSubAccountRejected(a)
    \/ getSubAccountAddress(a)
    \/ sendTransactionFromSub(a)
    \/ sendCallsResolved(a)
    \/ sendCallsRejected(a)
    \/ getWeatherDone(a)

SpecLive == Init /\ [][Next]_vars /\ \A a \in Attempts : WF_vars(resume(a))

\* ------------------------------------------------------------------------
\* The pure functions of the component, each called directly with arguments
\* of its parameter types: encodeMintCall (CallEncoder), the token URI
\* computation of getWeather (URIEncoder) and its metadata literal
\* (MetadataBuilder).
\* ------------------------------------------------------------------------
\* Code units of the generated texts: "a", "é", "€", and the two halves of
\* U+1F600, so that texts hold surrogate pairs and lone surrogates.
Units == {97, 233, 8364, 55357, 56832}

Texts == UNION {[1..n -> Units] : n \in 0..MaxLen}

\* Texts around the 32-byte and 64-byte boundaries of the ABI string tail.
LongTexts ==
    { Repeat(97, n) \o tail :
        n \in {30, 31, 32, 63}, tail \in {<<>>, <<97>>, <<233>>, <<97, 233>>} }

\* "0x0123...": a 20-byte address whose digits differ.
MixedAddress == <<48, 120>> \o [i \in 1..40 |-> HexDigit(i % 16)]

\* `to` arguments: 20-byte addresses as hex text, with and without "0x".
ToArguments == {Address(10), MixedAddress, SubSeq(MixedAddress, 3, 42)}

\* Text fields of an observation: "Paris", "Köln", a"b\c, a line feed and a
\* control character, "%41", "é€", U+1F600, a lone high and a lone low
\* surrogate, and the empty text.
Names ==
    { <<80, 97, 114, 105, 115>>, <<75, 246, 108, 110>>, <<97, 34, 98, 92, 99>>,
      <<10, 1>>, <<37, 52, 49>>, <<233, 8364>>, <<55357, 56832>>, <<55357>>,
      <<56832, 97>>, <<>> }

\* Temperatures in tenths: 18.5, -3, 0, 0.5, -0.5, 100.
Temperatures == {185, -30, 0, 5, -5, 1000}

WeatherObservations ==
    { [name |-> n, weather |-> <<[description |-> d]>>, main |-> [temp |-> t]] :
        n \in Names, d \in Names, t \in Temperatures }
    \cup {NoCondition}

\* The direct calls.
EncodeMintCallArguments ==
    { [fn |-> "encodeMintCall", to |-> to, tokenURI |-> u] :
        to \in ToArguments,
        u \in Texts \cup LongTexts \cup {tokenURIOf(buildMetadata(Koeln, <<49, 47, 49>>))} }

BuildMetadataArguments ==
    { [fn |-> "buildMetadata", w |-> w, now |-> now] :
        w \in WeatherObservations, now \in Dates }

TokenURIArguments ==
    { [fn |-> "tokenURIOf", m |-> buildMetadata(w, now)] :
        w \in WeatherObservations \ {NoCondition}, now \in Dates }

InitPure ==
    /\ Constructed
    /\ args \in EncodeMintCallArguments \cup BuildMetadataArguments \cup TokenURIArguments
    /\ returned = NULL

callEncodeMintCall ==
    /\ args.fn = "encodeMintCall"
    /\ returned = NULL
    /\ returned' = [value |-> encodeMintCall(args.to, args.tokenURI)]
    /\ UNCHANGED <<service, component, locals, requests, outcome, args>>

\* this.weather.weather[0].description throws when the condition array is
\* empty.
callBuildMetadata ==
    /\ args.fn = "buildMetadata"
    /\ returned = NULL
    /\ returned' = IF args.w.weather = <<>>
                   THEN [threw |-> TypeErrorMessage]
                   ELSE [value |-> buildMetadata(args.w, args.now)]
    /\ UNCHANGED <<service, component, locals, requests, outcome, args>>

callTokenURIOf ==
    /\ args.fn = "tokenURIOf"
    /\ returned = NULL
    /\ returned' = [value |-> tokenURIOf(args.m)]
    /\ UNCHANGED <<service, component, locals, requests, outcome, args>>

NextPure ==
    \/ callEncodeMintCall
    \/ callBuildMetadata
    \/ callTokenURIOf

SpecPure == InitPure /\ [][NextPure]_vars

\* ------------------------------------------------------------------------
\* Properties
\* ------------------------------------------------------------------------
\* <<a, i>> for every request i of call a that has method m.
Issued(m) ==
    UNION { {<<a, i>> : i \in {j \in DOMAIN requests[a] : requests[a][j].method = m}}
            : a \in Attempts }

\* The requests of call a that have method m.
IssuedBy(a, m) == {i \in DOMAIN requests[a] : requests[a][i].method = m}

\* The address a contract reads from argument 1 of an encoded call: the last
\* 20 bytes of the 32-byte word that follows "0x" and the selector.
Recipient(data) == <<48, 120>> \o SubSeq(data, 35, 74)

Last(s) == s[Len(s)]

Failed(a) == outcome[a] # NULL /\ outcome[a].failed # "none"

FailedAt(a, method) == outcome[a] # NULL /\ outcome[a].failed = method

Succeeded(a) == outcome[a] # NULL /\ outcome[a].failed = "none"

\* C1: under any interleaving of getWeather() calls, wallet_addSubAccount is
\* issued at most once in a session.
C1_SubAccountCreatedAtMostOnce ==
    Cardinality(Issued("wallet_addSubAccount")) <= 1

\* C2: in every wallet_sendCalls request of a mint attempt, the recipient
\* encoded as argument 1 of the call data is the request's `from` address.
C2_RecipientIsSender ==
    \A a \in Attempts :
        pc[a] = "awaitSendCalls" =>
            Recipient(mintData(a)) = Last(requests[a]).from

\* C3, as claimed: once a call of ensureSubAccount() has returned in a session
\* of calls made one after another, the discovery-or-create sequence has been
\* performed exactly once, and the call returned the cached address.
C3_DiscoveryExactlyOnce ==
    \A a \in Attempts :
        pc[a] = "ensured" =>
            /\ Cardinality(Issued("wallet_getSubAccounts")) = 1
            /\ sub[a] = subAccount

\* C3, amended: in a session of ensureSubAccount() calls made one after
\* another, every call that returns gives the cached address, the second call
\* of a mint attempt gives the address the first one gave, every dispatch of
\* the session is sent from that address, and once an address is cached it
\* stays and no call issues wallet_getSubAccounts or wallet_addSubAccount any
\* more: the sequence completes at most once.
C3_Idempotent ==
    /\ [](\A a \in Attempts :
            /\ pc[a] = "ensured" => sub[a] = subAccount
            /\ (pc[a] = "ensured" /\ caller[a] = "sendTransactionFromSub")
                   => sub[a] = subAddress[a]
            /\ \A i \in IssuedBy(a, "wallet_sendCalls") :
                   requests[a][i].from = subAccount)
    /\ [][subAccount # NULL =>
            /\ subAccount' = subAccount
            /\ Issued("wallet_getSubAccounts")' = Issued("wallet_getSubAccounts")
            /\ Issued("wallet_addSubAccount")' = Issued("wallet_addSubAccount")]_vars

\* C3 witness: the calls of the second mint attempt have returned, and the
\* only discovery of the session was made by the first attempt.
C3_Witness ==
    /\ MaxAttempts >= 2
    /\ pc[2] = "ensured"
    /\ caller[2] = "sendTransactionFromSub"
    /\ Issued("wallet_getSubAccounts") = {<<1, 2>>}

\* C4: once the cached sub-account is non-null, no step sets it back to null
\* or replaces it with another address.
C4_CachedSubAccountStays ==
    [][subAccount # NULL => subAccount' = subAccount]_vars

\* C5: every wallet_getSubAccounts request carries the recorded, non-null
\* primary address: it is only issued once a connect has completed.
C5_DiscoveryOnlyWhenConnected ==
    \A p \in Issued("wallet_getSubAccounts") :
        requests[p[1]][p[2]].account # NULL

\* A step of call a. Only the steps of a change pc[a] or caller[a].
StepOf(a) == pc'[a] # pc[a] \/ caller'[a] # caller[a]

\* C6: a dispatch (sendTransactionFromSub) that finds the sub-account cached
\* issues no discovery request and exactly one wallet_sendCalls request, with
\* the single call {to, data, value} and `from` the cached address, returns
\* the transport's result, and none of its steps changes the cached
\* sub-account or the primary address.
C6_DispatchWithCachedSubAccount ==
    /\ [](\A a \in Attempts :
            /\ Cardinality(IssuedBy(a, "wallet_sendCalls")) <= 1
            /\ pc[a] \in {"awaitSendCalls", "sent"} =>
                   /\ IssuedBy(a, "wallet_sendCalls") = {Len(requests[a])}
                   /\ Last(requests[a]).from = sub[a]
                   /\ Last(requests[a]).calls =
                          <<[to |-> CONTRACT_ADDRESS, value |-> DefaultValue]>>
            /\ pc[a] = "sent" => result[a] = Last(requests[a]).result)
    /\ [][\A a \in Attempts :
            /\ ( /\ subAccount # NULL
                 /\ caller[a] = "getSubAccountAddress"
                 /\ caller'[a] = "sendTransactionFromSub" )
                   => /\ sub'[a] = subAccount
                      /\ requests'[a] = requests[a]
                      /\ UNCHANGED <<subAccount, universalAddress>>
            /\ (caller[a] = "sendTransactionFromSub" /\ StepOf(a))
                   => UNCHANGED <<subAccount, universalAddress>>]_vars

\* C6 witness: a dispatch has returned the transport's result, sent from the
\* cached sub-account.
C6_Witness ==
    \E a \in Attempts :
        /\ pc[a] = "sent"
        /\ result[a] # NULL
        /\ Last(requests[a]).from = subAccount

\* C7: a request that fails is the last request of its mint attempt and is
\* sent once; an attempt that has failed has ended and issues nothing more.
C7_FailureIsTerminal ==
    /\ [](\A a \in Attempts :
            /\ \A i \in DOMAIN requests[a] :
                   requests[a][i].status = "rejected" =>
                       /\ i = Len(requests[a])
                       /\ pc[a] = "done"
                       /\ FailedAt(a, requests[a][i].method)
                       /\ Cardinality(IssuedBy(a, requests[a][i].method)) = 1
            /\ Failed(a) =>
                   /\ pc[a] = "done"
                   /\ Last(requests[a]).method = outcome[a].failed
                   /\ Last(requests[a]).status # "pending")
    /\ [][\A a \in Attempts :
            pc[a] = "done" => (pc'[a] = "done" /\ requests'[a] = requests[a])]_vars

\* C7 witness: an attempt failed at its third request, wallet_addSubAccount.
C7_Witness ==
    \E a \in Attempts :
        /\ FailedAt(a, "wallet_addSubAccount")
        /\ Len(requests[a]) = 3
        /\ Last(requests[a]).status = "rejected"

\* C8, as claimed: an attempt whose wallet_sendCalls request failed ends with
\* txHash null and the error message recorded, and its last request is the
\* failed one (no wallet_addSubAccount follows).
C8_DispatchFailureLeavesTxHashNull ==
    \A a \in Attempts :
        FailedAt(a, "wallet_sendCalls") =>
            /\ outcome[a].txHash = NULL
            /\ outcome[a].error = ErrorMessage("wallet_sendCalls")
            /\ Last(requests[a]).method = "wallet_sendCalls"

\* C8, amended: an attempt whose wallet_sendCalls request failed ends with the
\* error message recorded, its last request is the failed one (no
\* wallet_addSubAccount follows), and txHash is null at its end unless another
\* attempt has succeeded and set it.
C8_DispatchFailure ==
    \A a \in Attempts :
        FailedAt(a, "wallet_sendCalls") =>
            /\ outcome[a].error = ErrorMessage("wallet_sendCalls")
            /\ error # NULL
            /\ Last(requests[a]).method = "wallet_sendCalls"
            /\ Last(requests[a]).status = "rejected"
            /\ outcome[a].txHash # NULL =>
                   \E b \in Attempts \ {a} :
                       Succeeded(b) /\ outcome[b].txHash = outcome[a].txHash

\* C8 witness: a dispatch has failed.
C8_Witness ==
    \E a \in Attempts :
        /\ FailedAt(a, "wallet_sendCalls")
        /\ outcome[a].txHash = NULL
        /\ error = ErrorMessage("wallet_sendCalls")

\* C9: at the end of a failed attempt the weather observation it fetched has
\* been discarded and txHash is null.
C9_FailedAttemptDiscardsPartialState ==
    \A a \in Attempts :
        Failed(a) => (outcome[a].weather = NULL /\ outcome[a].txHash = NULL)

\* C10: connect records the first address of the response as the primary
\* address and, given two or more, caches the second as the sub-account; the
\* ensureSubAccount() calls that follow return that address and issue neither
\* wallet_getSubAccounts nor wallet_addSubAccount.
C10_ConnectCachesSecondAddress ==
    connectPc = "done" =>
        /\ universalAddress = accounts[1]
        /\ Len(accounts) >= 2 =>
               /\ subAccount = accounts[2]
               /\ Issued("wallet_getSubAccounts") = {}
               /\ Issued("wallet_addSubAccount") = {}
               /\ \A a \in Attempts : pc[a] = "ensured" => sub[a] = accounts[2]

\* C10 witness: after a connect that answered two addresses, a call of
\* ensureSubAccount() has returned.
C10_Witness ==
    /\ connectPc = "done"
    /\ Len(accounts) >= 2
    /\ \E a \in Attempts : pc[a] = "ensured" /\ caller[a] = "getSubAccountAddress"

\* ------------------------------------------------------------------------
\* Properties of the pure functions
\* ------------------------------------------------------------------------
\* The direct call of fn has returned a value.
Returned(fn) ==
    /\ args # NULL
    /\ args.fn = fn
    /\ returned # NULL
    /\ "value" \in DOMAIN returned

\* The UTF-8 bytes of position i of s (TextEncoder): a surrogate pair is one
\* code point of four bytes, a lone surrogate is written as U+FFFD.
utf8Unit(s, i) ==
    IF StartsPair(s, i)
    THEN utf8(65536 + (s[i] - 55296) * 1024 + (s[i + 1] - 56320))
    ELSE IF EndsPair(s, i) THEN <<>>
    ELSE IF IsHighSurrogate(s[i]) \/ IsLowSurrogate(s[i]) THEN utf8(65533)
    ELSE utf8(s[i])

utf8Bytes(s) == flatMap(utf8Unit, s, 1, Len(s))

\* Value of a hexadecimal digit of either case, -1 for another character.
HexValue(c) ==
    IF c >= 48 /\ c <= 57 THEN c - 48
    ELSE IF c >= 97 /\ c <= 102 THEN c - 87
    ELSE IF c >= 65 /\ c <= 70 THEN c - 55
    ELSE -1

\* The number written by the hexadecimal digits w.
RECURSIVE hexNumber(_)
hexNumber(w) ==
    IF w = <<>> THEN 0
    ELSE hexNumber(SubSeq(w, 1, Len(w) - 1)) * 16 + HexValue(w[Len(w)])

\* The hex text w read as a big-endian integer, -1 when w is not hex text.
bigEndian(w) ==
    LET significant == {i \in 1..Len(w) : w[i] # 48}
    IN  IF \E i \in 1..Len(w) : HexValue(w[i]) < 0 THEN -1
        ELSE IF significant = {} THEN 0
        ELSE hexNumber(SubSeq(w, CHOOSE i \in significant :
                                     \A j \in significant : i <= j, Len(w)))

\* The k-th 32-byte word of encoded call data, after "0x" and the selector.
Word(data, k) == SubSeq(data, 11 + 64 * (k - 1), 10 + 64 * k)

\* The hex digits of an address given with or without "0x".
AddressDigits(to) ==
    IF Len(to) >= 2 /\ to[1] = 48 /\ to[2] = 120 THEN SubSeq(to, 3, Len(to)) ELSE to

C13_SelectorAddressOffset ==
    Returned("encodeMintCall") =>
        /\ SubSeq(returned.value, 1, 10) = <<48, 120, 52, 48, 99, 49, 48, 102, 49, 57>>
        /\ Word(returned.value, 1) = Repeat(48, 24) \o AddressDigits(args.to)
        /\ Len(AddressDigits(args.to)) = 40
        /\ Len(Word(returned.value, 2)) = 64
        /\ bigEndian(Word(returned.value, 2)) = 64

\* C13 witness: a call with an address given without "0x" has returned.
C13_Witness ==
    /\ Returned("encodeMintCall")
    /\ args.to = SubSeq(MixedAddress, 3, 42)
    /\ args.tokenURI # <<>>

\* Value of a base64 character; "=" counts as 0.
Base64Value(c) ==
    IF c >= 65 /\ c <= 90 THEN c - 65
    ELSE IF c >= 97 /\ c <= 122 THEN c - 71
    ELSE IF c >= 48 /\ c <= 57 THEN c + 4
    ELSE IF c = 43 THEN 62
    ELSE IF c = 47 THEN 63
    ELSE 0

\* The bytes of the group of four base64 characters that starts at position i
\* of s, when i starts a group.
atobGroup(s, i) ==
    IF i % 4 # 1 \/ i + 3 > Len(s) THEN <<>>
    ELSE LET a == Base64Value(s[i])
             b == Base64Value(s[i + 1])
             c == Base64Value(s[i + 2])
             d == Base64Value(s[i + 3])
             bytes == <<a * 4 + (b \div 16), (b % 16) * 16 + (c \div 4), (c % 4) * 64 + d>>
         IN  IF s[i + 2] = 61 THEN SubSeq(bytes, 1, 1)
             ELSE IF s[i + 3] = 61 THEN SubSeq(bytes, 1, 2)
             ELSE bytes

\* Base64 decoding of s to bytes.
atob(s) == flatMap(atobGroup, s, 1, Len(s))

\* The UTF-16 code units of the UTF-8 sequence that starts at position i of
\* the bytes b; a continuation byte gives nothing, a truncated sequence U+FFFD.
utf8DecodeUnit(b, i) ==
    LET c == b[i]
        n == IF c < 128 THEN 1 ELSE IF c < 192 THEN 0 ELSE IF c < 224 THEN 2
             ELSE IF c < 240 THEN 3 ELSE 4
    IN  IF n = 0 THEN <<>>
        ELSE IF i + n - 1 > Len(b) THEN <<65533>>
        ELSE IF n = 1 THEN <<c>>
        ELSE IF n = 2 THEN <<(c - 192) * 64 + (b[i + 1] - 128)>>
        ELSE IF n = 3
             THEN <<(c - 224) * 4096 + (b[i + 1] - 128) * 64 + (b[i + 2] - 128)>>
        ELSE LET cp == (c - 240) * 262144 + (b[i + 1] - 128) * 4096
                       + (b[i + 2] - 128) * 64 + (b[i + 3] - 128) - 65536
             IN  <<55296 + (cp \div 1024), 56320 + (cp % 1024)>>

\* The text the bytes b are the UTF-8 encoding of.
utf8Decode(b) == flatMap(utf8DecodeUnit, b, 1, Len(b))

\* Position of the quote that closes the JSON string whose content starts at
\* position i of s; 0 when there is none.
RECURSIVE jsonStringEnd(_, _)
jsonStringEnd(s, i) ==
    IF i > Len(s) THEN 0
    ELSE IF s[i] = 34 THEN i
    ELSE IF s[i] = 92 THEN jsonStringEnd(s, i + 2)
    ELSE jsonStringEnd(s, i + 1)

\* The character a two-character JSON escape stands for.
jsonEscaped(c) ==
    IF c = 98 THEN 8 ELSE IF c = 116 THEN 9 ELSE IF c = 110 THEN 10
    ELSE IF c = 102 THEN 12 ELSE IF c = 114 THEN 13 ELSE c

\* The value of the JSON string content at positions i .. e - 1 of s.
RECURSIVE jsonText(_, _, _)
jsonText(s, i, e) ==
    IF i >= e THEN <<>>
    ELSE IF s[i] # 92 THEN <<s[i]>> \o jsonText(s, i + 1, e)
    ELSE IF s[i + 1] = 117
         THEN <<hexNumber(SubSeq(s, i + 2, i + 5))>> \o jsonText(s, i + 6, e)
    ELSE <<jsonEscaped(s[i + 1])>> \o jsonText(s, i + 2, e)

\* s continues at position i with the text lit.
Expect(s, i, lit) == SubSeq(s, i, i + Len(lit) - 1) = lit

\* {"trait_type":"  and  ","value":"
TraitTypeKey ==
    <<123, 34, 116, 114, 97, 105, 116, 95, 116, 121, 112, 101, 34, 58, 34>>
ValueKey == <<34, 44, 34, 118, 97, 108, 117, 101, 34, 58, 34>>

\* The elements of the JSON array of attribute objects whose first element
\* starts at position i of s, up to the closing "]}" of the text.
RECURSIVE jsonParseAttributes(_, _)
jsonParseAttributes(s, i) ==
    IF i > Len(s) THEN <<[threw |-> "SyntaxError"]>>
    ELSE IF s[i] = 93 THEN
        IF i + 1 = Len(s) /\ s[i + 1] = 125 THEN <<>> ELSE <<[threw |-> "SyntaxError"]>>
    ELSE LET t0 == i + Len(TraitTypeKey)
             t1 == jsonStringEnd(s, t0)
             v0 == t1 + Len(ValueKey)
             v1 == jsonStringEnd(s, v0)
         IN  IF ~Expect(s, i, TraitTypeKey) \/ t1 = 0 \/ ~Expect(s, t1, ValueKey)
                \/ v1 = 0 \/ ~Expect(s, v1, <<34, 125>>)
             THEN <<[threw |-> "SyntaxError"]>>
             ELSE <<[trait_type |-> jsonText(s, t0, t1), value |-> jsonText(s, v0, v1)]>>
                  \o jsonParseAttributes(s, IF v1 + 2 <= Len(s) /\ s[v1 + 2] = 44
                                            THEN v1 + 3 ELSE v1 + 2)

\* {"name":"  and  ","description":"  and  ","attributes":[
NameKey == <<123, 34, 110, 97, 109, 101, 34, 58, 34>>
DescriptionKey ==
    <<34, 44, 34, 100, 101, 115, 99, 114, 105, 112, 116, 105, 111, 110, 34, 58, 34>>
AttributesKey ==
    <<34, 44, 34, 97, 116, 116, 114, 105, 98, 117, 116, 101, 115, 34, 58, 91>>

\* JSON.parse of the text of a metadata object: the record it denotes.
jsonParse(s) ==
    LET n0 == 1 + Len(NameKey)
        n1 == jsonStringEnd(s, n0)
        d0 == n1 + Len(DescriptionKey)
        d1 == jsonStringEnd(s, d0)
        a0 == d1 + Len(AttributesKey)
    IN  IF ~Expect(s, 1, NameKey) \/ n1 = 0 \/ ~Expect(s, n1, DescriptionKey)
           \/ d1 = 0 \/ ~Expect(s, d1, AttributesKey)
        THEN [threw |-> "SyntaxError"]
        ELSE [ name |-> jsonText(s, n0, n1),
               description |-> jsonText(s, d0, d1),
               attributes |-> jsonParseAttributes(s, a0) ]

\* The metadata a reader of the token URI u gets: the payload base64-decoded,
\* read as UTF-8 and JSON-parsed.
DecodedTokenURI(u) ==
    jsonParse(utf8Decode(atob(SubSeq(u, Len(DataURIPrefix) + 1, Len(u)))))

NonASCII(s) == \E i \in 1..Len(s) : s[i] > 127

\* C14: the token URI starts with data:application/json;base64, and its
\* payload, base64-decoded, read as UTF-8 and JSON-parsed, is the metadata it
\* was built from, whatever code points the metadata text holds.
C14_TokenURIRoundTrip ==
    Returned("tokenURIOf") =>
        /\ SubSeq(returned.value, 1, 29) =
               <<100, 97, 116, 97, 58, 97, 112, 112, 108, 105, 99, 97, 116, 105, 111,
                 110, 47, 106, 115, 111, 110, 59, 98, 97, 115, 101, 54, 52, 44>>
        /\ DecodedTokenURI(returned.value) = args.m

\* C14 witness: a token URI has been built from metadata whose city and
\* condition hold non-ASCII characters.
C14_Witness ==
    /\ Returned("tokenURIOf")
    /\ NonASCII(args.m.attributes[1].value)
    /\ NonASCII(args.m.attributes[3].value)
    /\ Len(returned.value) > 29

\* The number of tenths the decimal text s writes ("-0.5" is -5), for a text
\* with at most one digit after the point.
RECURSIVE decimalNumber(_)
decimalNumber(s) ==
    IF s = <<>> THEN 0
    ELSE decimalNumber(SubSeq(s, 1, Len(s) - 1)) * 10 + (s[Len(s)] - 48)

tenthsOf(s) ==
    LET negative == s # <<>> /\ s[1] = 45
        body     == IF negative THEN Tail(s) ELSE s
        point    == {i \in 1..Len(body) : body[i] = 46}
        whole    == IF point = {} THEN body ELSE SubSeq(body, 1, Len(body) - 2)
        tenth    == IF point = {} THEN 0 ELSE body[Len(body)] - 48
        value    == decimalNumber(whole) * 10 + tenth
    IN  IF negative THEN 0 - value ELSE value

\* C15: the metadata built from an observation has exactly four attributes,
\* City, Temperature, Condition, Date in this order; City is the location
\* name, Temperature the temperature followed by "°C", Condition the
\* description of the first condition entry.
C15_FourAttributesInOrder ==
    Returned("buildMetadata") =>
        LET a == returned.value.attributes
            t == a[2].value
        IN  /\ Len(a) = 4
            /\ a[1].trait_type = <<67, 105, 116, 121>>
            /\ a[2].trait_type = <<84, 101, 109, 112, 101, 114, 97, 116, 117, 114, 101>>
            /\ a[3].trait_type = <<67, 111, 110, 100, 105, 116, 105, 111, 110>>
            /\ a[4].trait_type = <<68, 97, 116, 101>>
            /\ a[1].value = args.w.name
            /\ Len(t) > 2
            /\ SubSeq(t, Len(t) - 1, Len(t)) = <<176, 67>>
            /\ tenthsOf(SubSeq(t, 1, Len(t) - 2)) = args.w.main.temp
            /\ a[3].value = args.w.weather[1].description

\* C15 witness: metadata has been built from an observation with a negative
\* fractional temperature.
C15_Witness ==
    /\ Returned("buildMetadata")
    /\ args.w.main.temp = -5
    /\ Len(returned.value.attributes) = 4

\* ------------------------------------------------------------------------
\* Properties of concurrent and failing attempts
\* ------------------------------------------------------------------------
\* The byte written by the two hex digits at positions i, i + 1 of s, for an
\* odd i.
hexPairUnit(s, i) ==
    IF i % 2 = 1 /\ i < Len(s) THEN <<HexValue(s[i]) * 16 + HexValue(s[i + 1])>>
    ELSE <<>>

\* The string argument a contract reads from encoded call data: as many bytes
\* as the length word says, from the tail that follows the three head words.
TokenURIIn(data) ==
    LET n    == bigEndian(Word(data, 3))
        tail == SubSeq(data, 203, 202 + 2 * n)
    IN  flatMap(hexPairUnit, tail, 1, Len(tail))

\* The token URI of every metadata a call can have built.
BuiltTokenURIs == [m \in BuiltMetadata |-> tokenURIOf(m)]

\* C16: with several attempts in flight, the metadata of an attempt is built
\* from the observation its own weather request resolved with, stays the same
\* until the attempt ends, and the token URI inside the call data the attempt
\* dispatches is the token URI of that metadata.
C16_TokenURIFromOwnObservation ==
    /\ [](\A a \in Attempts :
            pc[a] = "awaitSendCalls" =>
                TokenURIIn(mintData(a)) = BuiltTokenURIs[metadata[a]])
    /\ [][\A a \in Attempts :
            /\ (pc[a] = "awaitWeather" /\ pc'[a] \notin {"awaitWeather", "done"})
                   => \E now \in Dates : metadata'[a] = buildMetadata(weather', now)
            /\ (metadata[a] # NULL /\ pc'[a] # "done")
                   => metadata'[a] = metadata[a]]_vars

\* C16 witness: an attempt dispatches while the weather field of the
\* component holds the observation another attempt in flight has fetched.
C16_Witness ==
    \E a \in Attempts, b \in Attempts :
        /\ a # b
        /\ pc[a] = "awaitSendCalls"
        /\ metadata[b] # NULL
        /\ metadata[b] # metadata[a]
        /\ weather # NULL
        /\ weather.name = metadata[b].attributes[1].value

\* The place of a request in the program order of getWeather.
Rank(method) ==
    IF method = "GET" THEN 1
    ELSE IF method = "wallet_getSubAccounts" THEN 2
    ELSE IF method = "wallet_addSubAccount" THEN 3
    ELSE 4

\* C17: the requests of an attempt are issued in program order, each after
\* the one before has resolved: the weather request first, the sub-account
\* requests after it has resolved, and wallet_sendCalls last, once the
\* sub-account address is known.
C17_ProgramOrder ==
    \A a \in Attempts :
        LET r == requests[a]
        IN  /\ \A i \in DOMAIN r, j \in DOMAIN r :
                   i < j => (Rank(r[i].method) < Rank(r[j].method)
                             /\ r[i].status = "resolved")
            /\ r # <<>> => r[1].method = "GET"
            /\ \A i \in IssuedBy(a, "wallet_sendCalls") : r[i].from # NULL
            /\ pc[a] \in {"awaitSendCalls", "sent"} =>
                   (subAddress[a] # NULL /\ sub[a] # NULL)

\* C17 witness: an attempt has issued all four requests.
C17_Witness ==
    \E a \in Attempts :
        /\ Len(requests[a]) = 4
        /\ pc[a] = "awaitSendCalls"

\* Call a failed in ensureSubAccount().
FailedToEnsure(a) ==
    FailedAt(a, "wallet_getSubAccounts") \/ FailedAt(a, "wallet_addSubAccount")

\* C18: in a session of calls made one after another, the rejection of
\* wallet_getSubAccounts or wallet_addSubAccount leaves the cached sub-account
\* null and the primary address as it is, and the next ensureSubAccount()
\* call starts again with wallet_getSubAccounts for the primary address.
C18_FailedEnsureCachesNothing ==
    /\ [](\A a \in Attempts :
            (a > 1 /\ FailedToEnsure(a - 1) /\ Len(requests[a]) >= 2) =>
                /\ requests[a][2].method = "wallet_getSubAccounts"
                /\ requests[a][2].account = universalAddress)
    /\ [][\A a \in Attempts :
            ( /\ pc[a] \in {"awaitGetSubAccounts", "awaitAddSubAccount"}
              /\ pc'[a] = "done" )
                => (subAccount' = NULL /\ universalAddress' = universalAddress)]_vars

\* C18 witness: wallet_addSubAccount was rejected in one call, and the next
\* call has asked for the sub-accounts again.
C18_Witness ==
    /\ MaxAttempts >= 2
    /\ FailedAt(1, "wallet_addSubAccount")
    /\ subAccount = NULL
    /\ Len(requests[2]) >= 2

\* C19: when every pending request is eventually answered, every attempt
\* that has started ends, and the step that ends it, after a success or a
\* failure, leaves loading false.
C19_AttemptEndsNotLoading ==
    /\ \A a \in Attempts : (pc[a] # "idle") ~> (pc[a] = "done")
    /\ [][\A a \in Attempts :
            (pc[a] # "done" /\ pc'[a] = "done") => loading' = FALSE]_vars

\* C19 witness: one attempt has ended with a success, one with a failure.
C19_Witness ==
    \E a \in Attempts, b \in Attempts :
        /\ Succeeded(a)
        /\ Failed(b)
        /\ pc[a] = "done"
        /\ pc[b] = "done"
        /\ loading = FALSE

\* C20: the error field changes only in the step that ends a failed attempt:
\* neither the start of an attempt nor the end of a successful one clears it.
\* A successful attempt ends with txHash set from the result and the error of
\* an earlier failed attempt still recorded.
C20_ErrorIsNeverCleared ==
    [][ /\ error' # error =>
               \E a \in Attempts :
                   /\ pc[a] # "done"
                   /\ pc'[a] = "done"
                   /\ outcome'[a].failed # "none"
                   /\ error' = outcome'[a].error
        /\ \A a \in Attempts :
               (pc[a] = "sent" /\ pc'[a] = "done") =>
                   /\ error' = error
                   /\ outcome'[a].error = error
                   /\ txHash' = extractTxHash(result[a]) ]_vars

\* C20 witness: an attempt has succeeded with a transaction hash while the
\* error of an earlier failed attempt is still recorded.
C20_Witness ==
    \E a \in Attempts, b \in Attempts :
        /\ Succeeded(a)
        /\ Failed(b)
        /\ outcome[a].txHash # NULL
        /\ outcome[a].error = outcome[b].error
        /\ txHash = outcome[a].txHash
        /\ error = outcome[b].error

====
